---- MODULE Spec2Model ----
(***************************************************************************)
(* GF(2) arithmetic and the bit-packed GF2BP array of galois/_fields/_gf2. *)
(*                                                                         *)
(* An array is a record [shape, rows]: shape is the numpy shape and rows   *)
(* the sequence of its last-axis rows (one row for a 1-D array, one        *)
(* one-element row for a 0-D array).  A GF2BP array carries in addition    *)
(* the attribute unpacked_shape (_unpacked_shape in the source); its shape *)
(* and rows are those of the uint8 storage.                                *)
(***************************************************************************)
EXTENDS Integers, Sequences, FiniteSets, TLC

VARIABLES op, arg, x, y, a, b, out

vars == <<op, arg, x, y, a, b, out>>

\* Bounds of the model.
MaxM == 2
MaxN == 9
MaxP == 2
MaxExp == 6

\* np.packbits / np.unpackbits work on uint8 storage: 8 elements per unit.
BitsPerUnit == 8

(***************************************************************************)
(* Results of an operation: an error kind and a value.                     *)
(***************************************************************************)
NoArray == [shape |-> <<>>, rows |-> <<>>]

Ok(v) == [err |-> "none", val |-> v]

Raise(e) == [err |-> e, val |-> NoArray]

NoResult == [err |-> "pending", val |-> NoArray]

(***************************************************************************)
(* Bitwise primitives on non-negative integers.                            *)
(***************************************************************************)
RECURSIVE bitwise_and(_, _)
bitwise_and(p, q) ==
    IF p = 0 \/ q = 0 THEN 0
    ELSE (p % 2) * (q % 2) + 2 * bitwise_and(p \div 2, q \div 2)

RECURSIVE bitwise_or(_, _)
bitwise_or(p, q) ==
    IF p = 0 THEN q
    ELSE IF q = 0 THEN p
    ELSE (IF p % 2 = 1 \/ q % 2 = 1 THEN 1 ELSE 0) + 2 * bitwise_or(p \div 2, q \div 2)

RECURSIVE bitwise_xor(_, _)
bitwise_xor(p, q) ==
    IF p = 0 THEN q
    ELSE IF q = 0 THEN p
    ELSE ((p + q) % 2) + 2 * bitwise_xor(p \div 2, q \div 2)

RECURSIVE bitwise_count(_)
bitwise_count(p) == IF p = 0 THEN 0 ELSE (p % 2) + bitwise_count(p \div 2)

\* np.bitwise_xor.reduce over one axis: the identity is 0.
RECURSIVE xor_reduce(_)
xor_reduce(s) == IF s = <<>> THEN 0 ELSE bitwise_xor(Head(s), xor_reduce(Tail(s)))

RECURSIVE SumSeq(_)
SumSeq(s) == IF s = <<>> THEN 0 ELSE Head(s) + SumSeq(Tail(s))

Last(s) == s[Len(s)]

(***************************************************************************)
(* Scalar rules of GF(2) (the calculate methods).                          *)
(***************************************************************************)
reciprocal_calculate(p) ==
    IF p = 0 THEN Raise("ZeroDivisionError") ELSE Ok(1)

divide_calculate(p, q) ==
    IF q = 0 THEN Raise("ZeroDivisionError") ELSE Ok(bitwise_and(p, q))

\* Variant of power.calculate whose zero test also covers the exponent 0.
power_calculate_mut(p, q) ==
    IF p = 0 /\ q <= 0 THEN Raise("ZeroDivisionError")
    ELSE IF q = 0 THEN Ok(1)
    ELSE Ok(p)

power_calculate(p, q) ==
    IF p = 0 /\ q < 0 THEN Raise("ZeroDivisionError")
    ELSE IF q = 0 THEN Ok(1)
    ELSE Ok(p)

\* Variant of log.calculate that tests the generator before the argument.
log_calculate_mut(p, q) ==
    IF q # 1 THEN Raise("ArithmeticError: not a generator")
    ELSE IF p = 0 THEN Raise("ArithmeticError: log of 0")
    ELSE Ok(0)

log_calculate(p, q) ==
    IF p = 0 THEN Raise("ArithmeticError: log of 0")
    ELSE IF q # 1 THEN Raise("ArithmeticError: not a generator")
    ELSE Ok(0)

(***************************************************************************)
(* np.packbits / np.unpackbits (big-endian bit order, zero padding).       *)
(***************************************************************************)
CeilUnits(n) == (n + BitsPerUnit - 1) \div BitsPerUnit

\* The k-th storage unit of a bit sequence: element 8(k-1)+j goes to bit 8-j.
PackUnit(bits, k) ==
    SumSeq([j \in 1..BitsPerUnit |->
              LET i == BitsPerUnit * (k - 1) + j
              IN  IF i <= Len(bits) /\ bits[i] # 0 THEN 2 ^ (BitsPerUnit - j) ELSE 0])

packbits_row(bits) == [k \in 1..CeilUnits(Len(bits)) |-> PackUnit(bits, k)]

\* count elements of the bits held by a sequence of units (zero when past the end).
unpackbits_row(units, count) ==
    [i \in 1..count |->
       IF i <= BitsPerUnit * Len(units)
       THEN (units[((i - 1) \div BitsPerUnit) + 1]
                \div (2 ^ (BitsPerUnit - 1 - ((i - 1) % BitsPerUnit)))) % 2
       ELSE 0]

ReplaceLast(shape, n) == [i \in 1..Len(shape) |-> IF i = Len(shape) THEN n ELSE shape[i]]

\* np.packbits(arr, axis=-1); a 0-D array is packed as its 1-element ravel.
packbits_last(arr) ==
    [shape |-> IF Len(arr.shape) = 0 THEN <<1>>
               ELSE ReplaceLast(arr.shape, CeilUnits(Last(arr.shape))),
     rows  |-> [i \in 1..Len(arr.rows) |-> packbits_row(arr.rows[i])]]

\* np.unpackbits(arr, axis=-1, count=count)
unpackbits_last(arr, count) ==
    [shape |-> ReplaceLast(arr.shape, count),
     rows  |-> [i \in 1..Len(arr.rows) |-> unpackbits_row(arr.rows[i], count)]]

Column(arr, j) == [i \in 1..Len(arr.rows) |-> arr.rows[i][j]]

\* np.packbits(arr, axis=0): for a 2-D array every column is packed downwards.
packbits_first(arr) ==
    IF Len(arr.shape) = 1 THEN packbits_last(arr)
    ELSE [shape |-> <<CeilUnits(arr.shape[1]), arr.shape[2]>>,
          rows  |-> [k \in 1..CeilUnits(arr.shape[1]) |->
                       [j \in 1..arr.shape[2] |-> PackUnit(Column(arr, j), k)]]]

\* self.view(np.ndarray): the storage without the attribute.
Storage(p) == [shape |-> p.shape, rows |-> p.rows]

WithShape(arr, us) == [shape |-> arr.shape, rows |-> arr.rows, unpacked_shape |-> us]

(***************************************************************************)
(* Construction and casting.                                               *)
(***************************************************************************)
\* GF2BP.__new__ on an ndarray whose values are 0 or 1 (the only inputs drawn
\* here, so the verification passes): pack along the last axis and attach
\* the shape of the input.
GF2BP_new(arr) == WithShape(packbits_last(arr), arr.shape)

\* FieldArray.astype, reached for every other target type: unsupported for
\* the packed representation, it fails with the not-implemented condition.
FieldArray_astype(self, dtype) == Raise("NotImplemented")

GF2_astype(self, dtype) ==
    IF dtype = "GF2BP" THEN Ok(GF2BP_new(self)) ELSE FieldArray_astype(self, dtype)

\* Variant of GF2BP.astype that unpacks without count: padding is kept.
GF2BP_astype_nocount(self, dtype) ==
    IF dtype = "GF2"
    THEN IF Len(self.unpacked_shape) = 0 THEN Raise("IndexError")
         ELSE Ok(unpackbits_last(Storage(self), BitsPerUnit * Last(self.shape)))
    ELSE FieldArray_astype(self, dtype)

\* Variant of GF2BP.astype that unpacks whatever the target type is.
GF2BP_astype_anytype(self, dtype) ==
    IF Len(self.unpacked_shape) = 0 THEN Raise("IndexError")
    ELSE Ok(unpackbits_last(Storage(self), Last(self.unpacked_shape)))

GF2BP_astype(self, dtype) ==
    IF dtype = "GF2"
    THEN IF Len(self.unpacked_shape) = 0 THEN Raise("IndexError")
         ELSE Ok(unpackbits_last(Storage(self), Last(self.unpacked_shape)))
    ELSE FieldArray_astype(self, dtype)

(***************************************************************************)
(* The overrides registered by UFuncMixin_2_1_BitPacked.                   *)
(***************************************************************************)
\* Variant of the add override: OR in place of XOR.
add_override_mut(p, q) == bitwise_or(p, q)

add_override(p, q) == bitwise_xor(p, q)

subtract_override(p, q) == bitwise_xor(p, q)

multiply_override(p, q) == bitwise_and(p, q)

override(f, p, q) ==
    CASE f = "add" -> add_override(p, q)
      [] f = "subtract" -> subtract_override(p, q)
      [] f = "multiply" -> multiply_override(p, q)

(***************************************************************************)
(* The base dispatcher: a ufunc applied to the storage of its operands,    *)
(* unit by unit, with numpy broadcasting (1-D against 2-D, array against   *)
(* scalar).                                                                *)
(***************************************************************************)
BroadcastShape(s, t) == IF Len(s) >= Len(t) THEN s ELSE t

BRow(arr, i) == IF Len(arr.shape) = 1 THEN arr.rows[1] ELSE arr.rows[i]

BRowCount(p, q) == IF Len(p.shape) >= Len(q.shape) THEN Len(p.rows) ELSE Len(q.rows)

\* A dispatcher built with an override: the override of operation f on every
\* pair of storage units.
override_call(f, p, q) ==
    [shape |-> BroadcastShape(p.shape, q.shape),
     rows  |-> [i \in 1..BRowCount(p, q) |->
                  [k \in 1..Last(BroadcastShape(p.shape, q.shape)) |->
                     override(f, BRow(p, i)[k], BRow(q, i)[k])]]]

override_call_scalar(f, p, s) ==
    [shape |-> p.shape,
     rows  |-> [i \in 1..Len(p.rows) |->
                  [k \in 1..Len(p.rows[i]) |-> override(f, p.rows[i][k], s)]]]

\* The dispatcher of divide: calculate on every pair of storage units; a
\* failure aborts the call.
calculate_call(p, q) ==
    LET shape == BroadcastShape(p.shape, q.shape)
        r == [i \in 1..BRowCount(p, q) |->
                [k \in 1..Last(shape) |-> divide_calculate(BRow(p, i)[k], BRow(q, i)[k])]]
    IN  IF \E i \in 1..Len(r) : \E k \in 1..Len(r[i]) : r[i][k].err # "none"
        THEN Raise("ZeroDivisionError")
        ELSE Ok([shape |-> shape,
                 rows  |-> [i \in 1..Len(r) |-> [k \in 1..Len(r[i]) |-> r[i][k].val]]])

(***************************************************************************)
(* The bit-packed dispatchers.                                             *)
(***************************************************************************)
add_ufunc_bitpacked(in0, in1) ==
    Ok(WithShape(override_call("add", Storage(in0), Storage(in1)), in0.unpacked_shape))

add_scalar_bitpacked(in0, s) ==
    Ok(WithShape(override_call_scalar("add", Storage(in0), s), in0.unpacked_shape))

subtract_ufunc_bitpacked(in0, in1) ==
    Ok(WithShape(override_call("subtract", Storage(in0), Storage(in1)), in0.unpacked_shape))

multiply_ufunc_bitpacked(in0, in1) ==
    Ok(WithShape(override_call("multiply", Storage(in0), Storage(in1)), in0.unpacked_shape))

divide_ufunc_bitpacked(in0, in1) ==
    LET output == calculate_call(Storage(in0), Storage(in1))
    IN  IF output.err # "none" THEN output
        ELSE Ok(WithShape(output.val, in0.unpacked_shape))

(***************************************************************************)
(* matmul_ufunc_bitpacked.__call__                                         *)
(***************************************************************************)
\* The second operand unpacked along its rows and packed again along axis 0.
RepackColumns(b0) ==
    WithShape(packbits_first(unpackbits_last(Storage(b0), Last(b0.unpacked_shape))),
              b0.unpacked_shape)

AndRow(arow, brow) == [k \in 1..Len(arow) |-> bitwise_and(arow[k], brow[k])]

\* matrix-vector: XOR over all the bits of a & b.
MatVecBit(arow, bvec) ==
    xor_reduce(unpackbits_row(AndRow(arow, bvec), BitsPerUnit * Len(arow)))

\* Variant of the matrix-matrix reduction without the final modulo 2.
MatMatBit_nomod(arow, bcol) ==
    xor_reduce([k \in 1..Len(arow) |-> bitwise_count(bitwise_and(arow[k], bcol[k]))])

\* matrix-matrix: XOR over the population counts of a & b[:, i], modulo 2.
MatMatBit(arow, bcol) ==
    xor_reduce([k \in 1..Len(arow) |-> bitwise_count(bitwise_and(arow[k], bcol[k]))]) % 2

matmul_ufunc_bitpacked(a0, b0) ==
    LET rb == RepackColumns(b0)
    IN  IF Last(a0.shape) # rb.shape[1] THEN Raise("AssertionError")
        ELSE IF Len(rb.shape) = 1
        THEN LET final_shape == <<a0.shape[1]>>
                 output == [shape |-> final_shape,
                            rows  |-> <<[i \in 1..a0.shape[1] |->
                                           MatVecBit(a0.rows[i], rb.rows[1])]>>]
             IN  Ok(WithShape(packbits_last(output), final_shape))
        ELSE LET final_shape == <<a0.shape[1], Last(rb.shape)>>
                 output == [shape |-> final_shape,
                            rows  |-> [i \in 1..a0.shape[1] |->
                                         [j \in 1..Last(rb.shape) |->
                                            MatMatBit(a0.rows[i], Column(rb, j))]]]
             IN  Ok(WithShape(packbits_last(output), final_shape))

(***************************************************************************)
(* Input arrays.  Every element outside a small set of cells (the first    *)
(* and the last two columns of the first and last rows) is 0, so that wide *)
(* rows spanning two storage units stay enumerable.                        *)
(***************************************************************************)
Bit == {0, 1}

EdgeCols(n) == {j \in 1..n : j = 1 \/ j >= n - 1}

CornerCells(m, n) ==
    {c \in (1..m) \X (1..n) :
        \/ c[1] = 1 /\ c[2] \in EdgeCols(n)
        \/ c[1] = m /\ c[2] >= n - 1}

DiagCells(m, n) ==
    {c \in (1..m) \X (1..n) : (c[1] = 1 /\ c[2] \in {1, n}) \/ (c[1] = m /\ c[2] = n)}

Transposed(cells) == {<<c[2], c[1]>> : c \in cells}

Scalars0D == {[shape |-> <<>>, rows |-> <<<<v>>>>] : v \in Bit}

Vectors(n) ==
    {[shape |-> <<n>>,
      rows  |-> <<[j \in 1..n |-> IF j \in EdgeCols(n) THEN f[j] ELSE 0]>>] :
        f \in [EdgeCols(n) -> Bit]}

Matrices(m, n, cells) ==
    {[shape |-> <<m, n>>,
      rows  |-> [i \in 1..m |-> [j \in 1..n |-> IF <<i, j>> \in cells THEN f[<<i, j>>] ELSE 0]]] :
        f \in [cells -> Bit]}

LeftMatrices(m, n) == Matrices(m, n, CornerCells(m, n))

RightMatrices(n, p) == Matrices(n, p, Transposed(CornerCells(p, n)))

(***************************************************************************)
(* Scalar arithmetic: GF2 elements and integer exponents.                  *)
(***************************************************************************)
InitScalar ==
    /\ op = "init" /\ arg = "none"
    /\ x \in Bit /\ y \in (-MaxExp)..MaxExp
    /\ a = x /\ b = y
    /\ out = NoResult

Finish(name, result) ==
    /\ op = "init"
    /\ op' = name
    /\ out' = result
    /\ UNCHANGED <<arg, x, y, a, b>>

Reciprocal == Finish("reciprocal", reciprocal_calculate(a))

Divide == y \in Bit /\ Finish("divide", divide_calculate(a, b))

Power == Finish("power", power_calculate(a, b))

Log == Finish("log", log_calculate(a, b))

NextScalar == Reciprocal \/ Divide \/ Power \/ Log

SpecScalar == InitScalar /\ [][NextScalar]_vars

(***************************************************************************)
(* Casting between GF2 and GF2BP: x.astype(GF2BP).astype(GF2).astype(GF2BP)*)
(***************************************************************************)
Ns == 0..MaxN

Ms == 0..MaxM

Ps == 0..MaxP

AllVectors == UNION {Vectors(n) : n \in Ns}

AllLeftMatrices == UNION {LeftMatrices(m, n) : m \in Ms, n \in Ns}

InitCast ==
    /\ op = "init" /\ arg = "none"
    /\ x \in Scalars0D \cup AllVectors \cup AllLeftMatrices
    /\ y = NoArray
    /\ a = x /\ b = NoArray
    /\ out = NoResult

CastPack ==
    /\ op = "init"
    /\ op' = "astype_GF2BP" /\ arg' = "GF2BP"
    /\ out' = GF2_astype(a, "GF2BP")
    /\ b' = out'.val
    /\ UNCHANGED <<x, y, a>>

CastUnpack ==
    /\ op = "astype_GF2BP" /\ out.err = "none"
    /\ op' = "astype_GF2" /\ arg' = "GF2"
    /\ out' = GF2BP_astype(b, "GF2")
    /\ UNCHANGED <<x, y, a, b>>

CastRepack ==
    /\ op = "astype_GF2" /\ out.err = "none"
    /\ op' = "repack" /\ arg' = "GF2BP"
    /\ out' = GF2_astype(out.val, "GF2BP")
    /\ UNCHANGED <<x, y, a, b>>

NextCast == CastPack \/ CastUnpack \/ CastRepack

SpecCast == InitCast /\ [][NextCast]_vars

(***************************************************************************)
(* Elementwise arithmetic and casts of two constructed GF2BP arrays.       *)
(***************************************************************************)
ElemPairs ==
    UNION {Vectors(n) \X Vectors(n) : n \in Ns}
    \cup UNION {LeftMatrices(m, n) \X Matrices(m, n, DiagCells(m, n)) : m \in Ms, n \in Ns}
    \cup UNION {Vectors(n) \X Matrices(m, n, DiagCells(m, n)) : m \in 1..MaxM, n \in 1..MaxN}
    \cup UNION {LeftMatrices(m, n) \X Vectors(n) : m \in 1..MaxM, n \in 1..MaxN}

DTypes == {"GF2", "GF2BP", "uint8", "int64"}

InitElem ==
    /\ op = "init" /\ arg = "none"
    /\ \E pr \in ElemPairs : x = pr[1] /\ y = pr[2]
    /\ a = GF2BP_new(x) /\ b = GF2BP_new(y)
    /\ out = NoResult

AddPacked == Finish("add", add_ufunc_bitpacked(a, b))

SubtractPacked == Finish("subtract", subtract_ufunc_bitpacked(a, b))

MultiplyPacked == Finish("multiply", multiply_ufunc_bitpacked(a, b))

DividePacked == Finish("divide", divide_ufunc_bitpacked(a, b))

AstypePacked ==
    \E dtype \in DTypes :
        /\ op = "init"
        /\ op' = "astype" /\ arg' = dtype
        /\ out' = GF2BP_astype(a, dtype)
        /\ UNCHANGED <<x, y, a, b>>

NextElem == AddPacked \/ SubtractPacked \/ MultiplyPacked \/ DividePacked \/ AstypePacked

SpecElem == InitElem /\ [][NextElem]_vars

(***************************************************************************)
(* Matrix multiplication of constructed operands with matching inner       *)
(* dimension, and the cast of the product back to GF2.                     *)
(***************************************************************************)
MatMulPairs ==
    UNION {LeftMatrices(m, n) \X Vectors(n) : m \in Ms, n \in Ns}
    \cup UNION {LeftMatrices(m, n) \X RightMatrices(n, p) : m \in Ms, n \in Ns, p \in Ps}

InitMatMul ==
    /\ op = "init" /\ arg = "none"
    /\ \E pr \in MatMulPairs : x = pr[1] /\ y = pr[2]
    /\ a = GF2BP_new(x) /\ b = GF2BP_new(y)
    /\ out = NoResult

MatMul ==
    /\ op \in {"init", "add_scalar"}
    /\ op' = "matmul"
    /\ out' = matmul_ufunc_bitpacked(a, b)
    /\ UNCHANGED <<arg, x, y, a, b>>

AstypeResult ==
    /\ op = "matmul" /\ out.err = "none"
    /\ op' = "matmul_astype_GF2"
    /\ out' = GF2BP_astype(out.val, "GF2")
    /\ UNCHANGED <<arg, x, y, a, b>>

NextMatMul == MatMul \/ AstypeResult

SpecMatMul == InitMatMul /\ [][NextMatMul]_vars

(***************************************************************************)
(* Matrix-vector multiplication with any pair of inner dimensions, also    *)
(* after a scalar was added to the left operand (a = a + s).               *)
(***************************************************************************)
PadPairs ==
    UNION {Matrices(m, n, DiagCells(m, n)) \X Vectors(k) :
              m \in 1..MaxM, n \in Ns, k \in 0..(MaxN + 1)}

InitPad ==
    /\ op = "init" /\ arg = "none"
    /\ \E pr \in PadPairs : x = pr[1] /\ y = pr[2]
    /\ a = GF2BP_new(x) /\ b = GF2BP_new(y)
    /\ out = NoResult

AddScalar ==
    \E s \in Bit :
        /\ op = "init"
        /\ op' = "add_scalar" /\ arg' = s
        /\ a' = add_scalar_bitpacked(a, s).val
        /\ UNCHANGED <<x, y, b, out>>

NextPad == AddScalar \/ MatMul

SpecPad == InitPad /\ [][NextPad]_vars

(***************************************************************************)
(* Reference results, computed on the unpacked 0/1 elements.               *)
(***************************************************************************)
\* The conventional integer matrix product of x and y, modulo 2.
IntMatMulMod2(u, v) ==
    LET n == Last(u.shape)
    IN  IF Len(v.shape) = 1
        THEN [shape |-> <<u.shape[1]>>,
              rows  |-> <<[i \in 1..u.shape[1] |->
                             SumSeq([k \in 1..n |-> u.rows[i][k] * v.rows[1][k]]) % 2]>>]
        ELSE [shape |-> <<u.shape[1], v.shape[2]>>,
              rows  |-> [i \in 1..u.shape[1] |->
                           [j \in 1..v.shape[2] |->
                              SumSeq([k \in 1..n |-> u.rows[i][k] * v.rows[k][j]]) % 2]]]

XorElements(u, v) ==
    [shape |-> u.shape,
     rows  |-> [i \in 1..Len(u.rows) |->
                  [j \in 1..Len(u.rows[i]) |-> (u.rows[i][j] + v.rows[i][j]) % 2]]]

AndElements(u, v) ==
    [shape |-> u.shape,
     rows  |-> [i \in 1..Len(u.rows) |->
                  [j \in 1..Len(u.rows[i]) |-> u.rows[i][j] * v.rows[i][j]]]]

HasZeroElement(u) == \E i \in 1..Len(u.rows) : \E j \in 1..Len(u.rows[i]) : u.rows[i][j] = 0

HasOneElement(u) == \E i \in 1..Len(u.rows) : \E j \in 1..Len(u.rows[i]) : u.rows[i][j] = 1

\* The physical shape that belongs to a logical shape.
PackedShapeOf(shape) == ReplaceLast(shape, CeilUnits(Last(shape)))

\* A result that unpacks to the array u and has only zero padding bits.
UnpacksCleanlyTo(r, u) ==
    /\ r.err = "none"
    /\ GF2BP_astype(r.val, "GF2").err = "none"
    /\ GF2BP_astype(r.val, "GF2").val = u
    /\ Storage(r.val) = packbits_last(u)

(***************************************************************************)
(* Claims.                                                                 *)
(***************************************************************************)
\* C1: the packed product of pack(A) and pack(B), A of shape [M,N] and B of
\* shape [N,P] or [N], unpacks to the integer matrix product of A and B
\* modulo 2, with the shape [M,P] or [M]; for N = 0 it is all zero.
C1_MatMulMatchesIntegerProduct ==
    /\ op = "matmul" => out.err = "none"
    /\ op = "matmul_astype_GF2" => out.err = "none" /\ out.val = IntMatMulMod2(x, y)

C1_Witness ==
    /\ op = "matmul_astype_GF2"
    /\ x.shape = <<MaxM, MaxN>> /\ y.shape = <<MaxN, MaxP>>
    /\ out.err = "none"
    /\ HasOneElement(out.val) /\ HasZeroElement(out.val)

\* C2: the packed product fails with a dimension mismatch, and returns no
\* array, whenever the last logical dimension of the left operand differs
\* from the first logical dimension of the right operand.
C2_MismatchFails ==
    (op = "matmul" /\ Last(a.unpacked_shape) # b.unpacked_shape[1])
        => out.err = "AssertionError" /\ out.val = NoArray

C4_ShapePropagated ==
    (op \in {"add", "subtract", "multiply", "divide"} /\ out.err = "none") =>
        /\ out.val.unpacked_shape = BroadcastShape(x.shape, y.shape)
        /\ out.val.shape = PackedShapeOf(out.val.unpacked_shape)

C6_PaddingNeverRead ==
    op = "matmul" =>
        LET clean == GF2BP_new(GF2BP_astype(a, "GF2").val)
            other == matmul_ufunc_bitpacked(clean, b)
        IN  /\ clean.unpacked_shape = a.unpacked_shape
            /\ GF2BP_astype(clean, "GF2") = GF2BP_astype(a, "GF2")
            /\ out.err = other.err
            /\ out.err = "none" =>
                   GF2BP_astype(out.val, "GF2") = GF2BP_astype(other.val, "GF2")

\* C7: divide of two GF2BP arrays of one logical shape fails with a division
\* by zero when some logical element of the divisor is 0, and is otherwise
\* the elementwise AND.
C7_DivideByLogicalZero ==
    (op = "divide" /\ x.shape = y.shape) =>
        IF HasZeroElement(y)
        THEN out.err = "ZeroDivisionError" /\ out.val = NoArray
        ELSE UnpacksCleanlyTo(out, AndElements(x, y))

\* C8: log(1,1) = 0; log(0,b) fails as the logarithm of 0 for every b;
\* log(a,b) with a # 0 and b # 1 fails as an invalid generator.
C8_LogRule ==
    op = "log" =>
        IF x = 0 THEN out.err = "ArithmeticError: log of 0"
        ELSE IF y # 1 THEN out.err = "ArithmeticError: not a generator"
        ELSE out.err = "none" /\ out.val = 0

C8_Witness == op = "log" /\ x = 0 /\ y # 1 /\ out.err = "ArithmeticError: log of 0"

\* C9: power(a,0) = 1 for a in {0,1}; power(0,b) with b < 0 fails with a
\* division by zero; otherwise power(a,b) = a.
C9_PowerRule ==
    op = "power" =>
        IF y = 0 THEN out.err = "none" /\ out.val = 1
        ELSE IF x = 0 /\ y < 0 THEN out.err = "ZeroDivisionError"
        ELSE out.err = "none" /\ out.val = x

C9_Witness == op = "power" /\ x = 0 /\ y = 0 /\ out.err = "none" /\ out.val = 1

\* C10: for x and y of one logical shape, add and subtract of pack(x) and
\* pack(y) unpack to x XOR y and multiply unpacks to x AND y, and the
\* padding bits of the results are 0.
C10_PackedRefinesUnpacked ==
    x.shape = y.shape =>
        /\ op \in {"add", "subtract"} => UnpacksCleanlyTo(out, XorElements(x, y))
        /\ op = "multiply" => UnpacksCleanlyTo(out, AndElements(x, y))

C10_Witness ==
    /\ op = "add"
    /\ x.shape = <<MaxM, MaxN>> /\ y.shape = x.shape
    /\ x.rows[1][1] = 1 /\ y.rows[1][1] = 1
    /\ x.rows[MaxM][MaxN] = 1 /\ y.rows[MaxM][MaxN] = 0
    /\ out.err = "none"

====
